---------------------------- MODULE Spec2Model ----------------------------
(***************************************************************************)
(* PerformanceMonitor (src/performance_monitor.py): the trade ledger, the  *)
(* rolling metrics and the parameter optimisation, as a state machine.     *)
(*                                                                         *)
(* Numbers.  Python floats are modelled exactly:                           *)
(*   - prices, sizes, pnl and capital are integers;                        *)
(*   - times are integers in units of 100 seconds;                         *)
(*   - confidences and confidence thresholds are integers in thousandths   *)
(*     (0.7 is 700);                                                       *)
(*   - every ratio (win_rate, profit_factor, position_size_factor,         *)
(*     signal_cooldown, max_drawdown, sharpe_ratio) is a fraction          *)
(*     [num, den] in lowest terms, so that two fractions are equal exactly *)
(*     when the floats are; den = 0 encodes float('inf') (num = 1) and     *)
(*     nan (num = 0).                                                      *)
(* Optional values are <<>> (None) or <<v>>.                               *)
(***************************************************************************)
EXTENDS Integers, Sequences, FiniteSets

\* pm: the PerformanceMonitor; call: the last call of one of its methods;
\* threads: the callers of the monitor that run concurrently, each with its
\* position in the method it executes; algo: the QuantTradingAlgorithm that
\* owns the monitor, with its position in run_live_trading.
VARIABLES pm, call, threads, algo

vars == <<pm, call, threads, algo>>

-----------------------------------------------------------------------------
(* Bounds of the model.                                                    *)

\* evaluation_window of the monitor of the ledger specification (Spec).
LedgerWindow == 2
\* Closed trades allowed in the ledger specification (Spec).
MaxTrades == 2
\* Optimisation cycles recorded in the ledger specification (Spec).
MaxHistory == 1
\* evaluation_window of the monitor of the optimiser specification (SpecOpt).
OptWindow == 12
\* Closed trades allowed in the optimiser specification (SpecOpt).
MaxOptTrades == 13
\* Optimisation cycles recorded in the optimiser specification (SpecOpt).
MaxOptimize == 4
\* The first MaxOdd trades of SpecOpt are drawn from all the orders, the
\* later ones are the default order.
MaxOdd == 1
\* Closed trades and optimisation cycles allowed in the specification of the
\* position-size step (SpecStep).
MaxStepTrades == 2
MaxStepOptimize == 8

-----------------------------------------------------------------------------
(* Fractions.                                                              *)

Abs(x) == IF x < 0 THEN -x ELSE x

RECURSIVE GCD(_, _)
GCD(a, b) == IF b = 0 THEN a ELSE GCD(b, a % b)

\* n/d with d > 0, in lowest terms.
Frac(n, d) == LET g == GCD(Abs(n), d) IN [num |-> n \div g, den |-> d \div g]

Int2F(n) == [num |-> n, den |-> 1]
Inf == [num |-> 1, den |-> 0]
NaN == [num |-> 0, den |-> 0]

\* a < b on finite fractions; every comparison with nan is False.
FLt(a, b) == a.den > 0 /\ b.den > 0 /\ a.num * b.den < b.num * a.den
FMul(a, p, q) == Frac(a.num * p, a.den * q)

None == <<>>
Some(v) == <<v>>

-----------------------------------------------------------------------------
(* Sequence helpers.                                                       *)

\* Mutant: the whole list, not its tail.
LastNWhole(seq, n) == seq

\* seq[-n:]
LastN(seq, n) ==
    IF Len(seq) <= n THEN seq ELSE SubSeq(seq, Len(seq) - n + 1, Len(seq))

RECURSIVE SumSeq(_)
SumSeq(s) == IF s = <<>> THEN 0 ELSE Head(s) + SumSeq(Tail(s))

RECURSIVE SumOver(_, _)
SumOver(f, S) ==
    IF S = {} THEN 0
    ELSE LET i == CHOOSE j \in S : TRUE IN f[i] + SumOver(f, S \ {i})

-----------------------------------------------------------------------------
(* class PerformanceMonitor                                                *)

\* TradeMetrics(...) as record_trade_entry builds it: exit_time, exit_price,
\* pnl, trade_duration and max_drawdown are None, market_impact is 0.0.
TradeMetrics(symbol, entry_time, entry_price, position_size, signal_confidence, volatility) ==
    [symbol |-> symbol,
     entry_time |-> entry_time,
     exit_time |-> None,
     entry_price |-> entry_price,
     exit_price |-> None,
     position_size |-> position_size,
     signal_confidence |-> signal_confidence,
     pnl |-> None,
     trade_duration |-> None,
     max_drawdown |-> None,
     volatility_at_entry |-> volatility,
     market_impact |-> 0]

\* {}
EmptyDict == [x \in {} |-> x]
\* self.active_trades[symbol] = trade
DictSet(d, k, v) == [x \in DOMAIN d \cup {k} |-> IF x = k THEN v ELSE d[x]]
\* del self.active_trades[symbol]
DictDel(d, k) == [x \in DOMAIN d \ {k} |-> d[x]]

\* PerformanceMonitor.__init__; max_drawdown_threshold = 0.02 and
\* target_win_rate = 0.55 are the values every caller and the defaults give.
NewMonitor(initial_capital, confidence_threshold, evaluation_window) ==
    [initial_capital |-> initial_capital,
     current_capital |-> initial_capital,
     confidence_threshold |-> confidence_threshold,
     evaluation_window |-> evaluation_window,
     max_drawdown_threshold |-> Frac(2, 100),
     target_win_rate |-> Frac(55, 100),
     trades |-> <<>>,
     active_trades |-> EmptyDict,
     daily_returns |-> <<>>,
     win_rate |-> Int2F(0),
     profit_factor |-> Int2F(0),
     sharpe_ratio |-> Int2F(0),
     max_drawdown |-> Int2F(0),
     optimal_params |-> [confidence_threshold |-> confidence_threshold,
                         position_size_factor |-> Int2F(1),
                         signal_cooldown |-> Int2F(60)],
     params_history |-> <<>>]

\* Mutant: an entry puts the cooldown of the parameters back to its default.
RecordTradeEntryResetsParams(m, symbol, entry_time, entry_price, position_size, signal_confidence, volatility) ==
    [pm |-> [m EXCEPT !.active_trades =
                DictSet(@, symbol,
                        TradeMetrics(symbol, entry_time, entry_price,
                                     position_size, signal_confidence,
                                     volatility)),
                      !.optimal_params.signal_cooldown = Int2F(60)],
     raised |-> "none"]

\* record_trade_entry: no check of an existing entry, the assignment replaces
\* whatever the symbol mapped to.
RecordTradeEntry(m, symbol, entry_time, entry_price, position_size, signal_confidence, volatility) ==
    [pm |-> [m EXCEPT !.active_trades =
                DictSet(@, symbol,
                        TradeMetrics(symbol, entry_time, entry_price,
                                     position_size, signal_confidence,
                                     volatility))],
     raised |-> "none"]

\* Mutant: the difference taken the wrong way round.
TradePnlReversed(entry_price, exit_price, position_size) ==
    (entry_price - exit_price) * position_size

\* (exit_price - trade.entry_price) * trade.position_size
TradePnl(entry_price, exit_price, position_size) ==
    (exit_price - entry_price) * position_size

\* exit_time - trade.entry_time
TradeDuration(entry_time, exit_time) == exit_time - entry_time

\* Mutant: the capital floored at zero.
CapitalFloored(capital, pnl) == IF capital + pnl < 0 THEN 0 ELSE capital + pnl

\* self.current_capital += trade.pnl
CapitalAfter(capital, pnl) == capital + pnl

\* sum(1 for t in recent_trades if t.pnl and t.pnl > 0)
ProfitableTrades(recent) ==
    Cardinality({i \in 1..Len(recent) : recent[i].pnl # None /\ recent[i].pnl[1] > 0})

WinRate(recent) == Frac(ProfitableTrades(recent), Len(recent))

GrossProfit(recent) ==
    SumOver([i \in 1..Len(recent) |-> recent[i].pnl[1]],
            {i \in 1..Len(recent) : recent[i].pnl # None /\ recent[i].pnl[1] > 0})

GrossLoss(recent) ==
    Abs(SumOver([i \in 1..Len(recent) |-> recent[i].pnl[1]],
                {i \in 1..Len(recent) : recent[i].pnl # None /\ recent[i].pnl[1] < 0}))

\* Mutant: 0 instead of infinity when the window has no loss.
ProfitFactorZero(recent) ==
    IF GrossLoss(recent) > 0
    THEN Frac(GrossProfit(recent), GrossLoss(recent))
    ELSE Int2F(0)

\* gross_profit / gross_loss if gross_loss > 0 else float('inf')
ProfitFactor(recent) ==
    IF GrossLoss(recent) > 0
    THEN Frac(GrossProfit(recent), GrossLoss(recent))
    ELSE Inf

\* pd.Series([...]).resample('D'): the Series is built from a plain list, so
\* its index is a RangeIndex; resample accepts only a DatetimeIndex,
\* TimedeltaIndex or PeriodIndex and raises TypeError for any other index,
\* whatever the values (the empty list included).
ResampleDaily(values) == "TypeError"

\* Mutant: every call adds the window's return to the series it keeps.
UpdateKeepsAppending(m) ==
    IF m.trades = <<>>
    THEN [pm |-> m, raised |-> "none"]
    ELSE LET recent == LastN(m.trades, m.evaluation_window)
         IN  [pm |-> [m EXCEPT !.win_rate = WinRate(recent),
                               !.profit_factor = ProfitFactor(recent),
                               !.daily_returns =
                                   Append(@, Frac(GrossProfit(recent)
                                                    - GrossLoss(recent),
                                                  m.initial_capital))],
              raised |-> "TypeError"]

\* _update_performance_metrics.  win_rate and profit_factor are assigned
\* before the resample of line 150 raises; the statements after it (lines
\* 151-163: daily_returns, sharpe_ratio, max_drawdown) are never reached.
UpdatePerformanceMetrics(m) ==
    IF m.trades = <<>>
    THEN [pm |-> m, raised |-> "none"]
    ELSE LET recent == LastN(m.trades, m.evaluation_window)
             values == SelectSeq([i \in 1..Len(recent) |-> recent[i].pnl],
                                 LAMBDA p : p # None /\ p[1] # 0)
         IN  [pm |-> [m EXCEPT !.win_rate = WinRate(recent),
                               !.profit_factor = ProfitFactor(recent)],
              raised |-> ResampleDaily(values)]

\* Mutant: the exit also stamps its price on the closed trades of its symbol.
CloseTradeRestamps(m, symbol, exit_time, exit_price, market_impact) ==
         LET t0 == m.active_trades[symbol]
             trade == [t0 EXCEPT
                         !.exit_time = Some(exit_time),
                         !.exit_price = Some(exit_price),
                         !.market_impact = market_impact,
                         !.trade_duration =
                             Some(TradeDuration(t0.entry_time, exit_time)),
                         !.pnl = Some(TradePnl(t0.entry_price, exit_price,
                                               t0.position_size))]
             stamped == [i \in DOMAIN m.trades |->
                            IF m.trades[i].symbol = symbol
                            THEN [m.trades[i] EXCEPT
                                     !.exit_price = Some(exit_price)]
                            ELSE m.trades[i]]
             m1 == [m EXCEPT
                      !.current_capital = CapitalAfter(@, trade.pnl[1]),
                      !.trades = Append(stamped, trade),
                      !.active_trades = DictDel(@, symbol)]
         IN  UpdatePerformanceMetrics(m1)

\* record_trade_exit once the symbol is known to have an active trade.
CloseTrade(m, symbol, exit_time, exit_price, market_impact) ==
         LET t0 == m.active_trades[symbol]
             trade == [t0 EXCEPT
                         !.exit_time = Some(exit_time),
                         !.exit_price = Some(exit_price),
                         !.market_impact = market_impact,
                         !.trade_duration =
                             Some(TradeDuration(t0.entry_time, exit_time)),
                         !.pnl = Some(TradePnl(t0.entry_price, exit_price,
                                               t0.position_size))]
             m1 == [m EXCEPT
                      !.current_capital = CapitalAfter(@, trade.pnl[1]),
                      !.trades = Append(@, trade),
                      !.active_trades = DictDel(@, symbol)]
         IN  UpdatePerformanceMetrics(m1)

\* Mutant: no early return, the lookup of a missing symbol raises.
RecordTradeExitUnguarded(m, symbol, exit_time, exit_price, market_impact) ==
    IF symbol \notin DOMAIN m.active_trades
    THEN [pm |-> m, raised |-> "KeyError"]
    ELSE CloseTrade(m, symbol, exit_time, exit_price, market_impact)

\* record_trade_exit
RecordTradeExit(m, symbol, exit_time, exit_price, market_impact) ==
    IF symbol \notin DOMAIN m.active_trades
    THEN [pm |-> m, raised |-> "none"]
    ELSE CloseTrade(m, symbol, exit_time, exit_price, market_impact)

-----------------------------------------------------------------------------
(* optimize_parameters                                                     *)

\* if len(high_conf_trades) > 10
MinSample == 10

\* np.arange(0.5, 0.9, 0.05), in thousandths.  numpy fills the array as
\* start + i * ((start + step) - start); in double precision the difference
\* is 0.050000000000000044, so the candidates from the third on lie a few ulps
\* ABOVE 0.60, 0.65, ... 0.85 (0.6000000000000001, 0.6500000000000001,
\* 0.7000000000000002, ...).  A confidence of the model is a whole number of
\* thousandths, so writing such a candidate as nominal + 1 makes
\* `confidence >= threshold` decide exactly as it does on the floats.
Thresholds == <<500, 550, 601, 651, 701, 751, 801, 851>>

\* The rows of confidence_performance: one per window trade with pnl set.
ConfidencePerformance(recent) ==
    SelectSeq([i \in 1..Len(recent) |->
                 [confidence |-> recent[i].signal_confidence,
                  pnl |-> recent[i].pnl,
                  success |-> IF recent[i].pnl # None /\ recent[i].pnl[1] > 0
                              THEN 1 ELSE 0]],
              LAMBDA r : r.pnl # None)

\* confidence_performance[confidence_performance['confidence'] >= threshold]
HighConf(perf, threshold) == SelectSeq(perf, LAMBDA r : r.confidence >= threshold)

\* high_conf_trades['success'].mean()
SuccessMean(rows) ==
    Frac(SumSeq([i \in 1..Len(rows) |-> rows[i].success]), Len(rows))

\* whether a candidate replaces the best so far: win_rate > best_win_rate
Beats(win_rate, best_win_rate) == FLt(best_win_rate, win_rate)

\* The loop over the candidates from index i on, with the best so far.
RECURSIVE GridSearch(_, _, _, _)
GridSearch(i, perf, best_threshold, best_win_rate) ==
    IF i > Len(Thresholds) THEN best_threshold
    ELSE LET high == HighConf(perf, Thresholds[i])
         IN  IF Len(high) > MinSample /\ Beats(SuccessMean(high), best_win_rate)
             THEN GridSearch(i + 1, perf, Thresholds[i], SuccessMean(high))
             ELSE GridSearch(i + 1, perf, best_threshold, best_win_rate)

\* The search starts from self.confidence_threshold, the constructor's value,
\* and self.win_rate; its result is stored in optimal_params.
BestThreshold(m, recent) ==
    LET perf == ConfidencePerformance(recent)
    IN  IF perf = <<>> THEN m.optimal_params.confidence_threshold
        ELSE GridSearch(1, perf, m.confidence_threshold, m.win_rate)

\* Mutant: the step up taken on the win rate alone.
SizeStepNoHalf(factor, win_rate, max_drawdown, max_drawdown_threshold, target_win_rate) ==
    IF FLt(max_drawdown_threshold, max_drawdown)
    THEN FMul(factor, 8, 10)
    ELSE IF FLt(target_win_rate, win_rate)
         THEN FMul(factor, 12, 10)
         ELSE factor

\* The position-size step before the clip.
SizeStep(factor, win_rate, max_drawdown, max_drawdown_threshold, target_win_rate) ==
    IF FLt(max_drawdown_threshold, max_drawdown)
    THEN FMul(factor, 8, 10)
    ELSE IF FLt(target_win_rate, win_rate)
            /\ FLt(max_drawdown, FMul(max_drawdown_threshold, 5, 10))
         THEN FMul(factor, 12, 10)
         ELSE factor

\* Mutant: the upper limit of the clip left out.
ClipFactorBelowOnly(x) == IF FLt(x, Frac(2, 10)) THEN Frac(2, 10) ELSE x

\* np.clip(x, 0.2, 2.0)
ClipFactor(x) ==
    IF FLt(x, Frac(2, 10)) THEN Frac(2, 10)
    ELSE IF FLt(Int2F(2), x) THEN Int2F(2)
    ELSE x

\* The seconds of the window's durations that are truthy: a timedelta of
\* zero is falsy, a negative one is not.  One unit of time is 100 seconds.
DurationSeconds(recent) ==
    LET kept == SelectSeq(recent, LAMBDA t : t.trade_duration # None
                                             /\ t.trade_duration[1] # 0)
    IN  [i \in 1..Len(kept) |-> kept[i].trade_duration[1] * 100]

\* Mutant: a mean that raises on an empty list, as sum(xs) / len(xs) does.
NpMeanStrict(xs) ==
    IF xs = <<>> THEN [raised |-> "ZeroDivisionError", value |-> NaN]
    ELSE [raised |-> "none", value |-> Frac(SumSeq(xs), Len(xs))]

\* np.mean: nan (with a RuntimeWarning, no exception) on an empty list.
NpMean(xs) ==
    IF xs = <<>> THEN [raised |-> "none", value |-> NaN]
    ELSE [raised |-> "none", value |-> Frac(SumSeq(xs), Len(xs))]

\* max(30, min(300, avg_trade_duration * 0.2))
ClampCooldown(avg) ==
    LET x == FMul(avg, 2, 10)
        lo == IF FLt(x, Int2F(300)) THEN x ELSE Int2F(300)
    IN  IF FLt(Int2F(30), lo) THEN lo ELSE Int2F(30)

\* if avg_trade_duration > 0: ... (False for nan)
NewCooldown(old, avg) == IF FLt(Int2F(0), avg) THEN ClampCooldown(avg) ELSE old

\* Mutant: the gate one trade too low.
GatedOffByOne(m) == Len(m.trades) < m.evaluation_window - 1

\* if len(self.trades) < self.evaluation_window: return self.optimal_params
Gated(m) == Len(m.trades) < m.evaluation_window

\* Mutant: the entry holds the parameters the call started from.
HistoryEntryStale(m, params) ==
    [params |-> m.optimal_params,
     metrics |-> [win_rate |-> m.win_rate,
                  profit_factor |-> m.profit_factor,
                  sharpe_ratio |-> m.sharpe_ratio,
                  max_drawdown |-> m.max_drawdown]]

\* The entry appended to params_history (the timestamp is left out).
HistoryEntry(m, params) ==
    [params |-> params,
     metrics |-> [win_rate |-> m.win_rate,
                  profit_factor |-> m.profit_factor,
                  sharpe_ratio |-> m.sharpe_ratio,
                  max_drawdown |-> m.max_drawdown]]

\* optimize_parameters: the monitor after the call, what was raised and the
\* dict returned (self.optimal_params itself).
OptimizeParameters(m) ==
    IF Gated(m)
    THEN [pm |-> m, raised |-> "none", ret |-> Some(m.optimal_params)]
    ELSE LET recent == LastN(m.trades, m.evaluation_window)
             p1 == [m.optimal_params EXCEPT
                      !.confidence_threshold = BestThreshold(m, recent),
                      !.position_size_factor =
                          ClipFactor(SizeStep(@, m.win_rate, m.max_drawdown,
                                              m.max_drawdown_threshold,
                                              m.target_win_rate))]
             avg == NpMean(DurationSeconds(recent))
             p2 == [p1 EXCEPT !.signal_cooldown = NewCooldown(@, avg.value)]
         IN  IF avg.raised # "none"
             THEN [pm |-> [m EXCEPT !.optimal_params = p1],
                   raised |-> avg.raised, ret |-> None]
             ELSE [pm |-> [m EXCEPT !.optimal_params = p2,
                                    !.params_history =
                                        Append(@, HistoryEntry(m, p2))],
                   raised |-> "none", ret |-> Some(p2)]

-----------------------------------------------------------------------------
(* save_metrics                                                            *)

\* What open(file_path, 'w') and json.dump end with: nothing, or the error of
\* the file system.
Sinks == {"none", "OSError"}

\* The dict save_metrics writes (the timestamp is left out); total_return is
\* in percent.
MetricsDict(m) ==
    [initial_capital |-> m.initial_capital,
     current_capital |-> m.current_capital,
     total_return |-> Frac((m.current_capital - m.initial_capital) * 100,
                           m.initial_capital),
     win_rate |-> m.win_rate,
     profit_factor |-> m.profit_factor,
     sharpe_ratio |-> m.sharpe_ratio,
     max_drawdown |-> m.max_drawdown,
     optimal_params |-> m.optimal_params,
     number_of_trades |-> Len(m.trades),
     active_trades |-> Cardinality(DOMAIN m.active_trades)]

\* Mutant: the error of the sink caught and dropped.
SaveMetricsSwallowing(m, sink) ==
    [pm |-> m, raised |-> "none",
     ret |-> IF sink = "none" THEN Some(MetricsDict(m)) ELSE None]

\* save_metrics: reads the monitor, writes the dict; no try, so what the
\* sink raises reaches the caller.  ret is the dict that was written.
SaveMetrics(m, sink) ==
    [pm |-> m, raised |-> sink,
     ret |-> IF sink = "none" THEN Some(MetricsDict(m)) ELSE None]

-----------------------------------------------------------------------------
(* The ledger specification: one monitor with a short evaluation window,   *)
(* called with any arguments of the sets below in any order.               *)

Symbols == {"AAPL", "MSFT"}
InitialCapitals == {100}
\* The orders of the first symbol vary in every argument the ledger reads;
\* those of the second are there to share the ledger with them.
EntryTimes(s) == IF s = "AAPL" THEN {0, 19} ELSE {0}
\* Times count hundreds of seconds: a calendar day, the 'D' of line 150, is
\* 864 of them.  The second symbol is closed on the day after the first.
DayUnits == 864
DayOf(t) == t \div DayUnits
ExitTimes(s) == IF s = "AAPL" THEN {0, 20} ELSE {DayUnits + 20}
EntryPrices == {100}
ExitPrices(s) == IF s = "AAPL" THEN {90, 100, 110} ELSE {90, 110}
Sizes == {10}
Confidences == {700}
Volatilities == {1}
Impacts == {1}

\* What the last call was: the method, whether it found what it looks for
\* (an active trade of its symbol; a closed trade; enough trades to
\* optimise; a sink that takes the write), the exception it ended with, the arguments of an exit that
\* found its trade, and the dict an optimisation returned.
Call(op, hit, raised, args, ret) ==
    [op |-> op, hit |-> hit, raised |-> raised, args |-> args, ret |-> ret]

ExitArgs(symbol, exit_time, exit_price, market_impact) ==
    Some([symbol |-> symbol, exit_time |-> exit_time,
          exit_price |-> exit_price, market_impact |-> market_impact])

\* No concurrent caller, no trading loop.
NoThreads == <<>>
NoAlgo == [pc |-> "none"]

Init ==
    /\ \E c \in InitialCapitals : pm = NewMonitor(c, 600, LedgerWindow)
    /\ call = Call("__init__", FALSE, "none", None, None)
    /\ threads = NoThreads
    /\ algo = NoAlgo

Entry ==
    \E s \in Symbols, p \in EntryPrices, q \in Sizes,
       c \in Confidences, v \in Volatilities : \E t \in EntryTimes(s) :
        LET r == RecordTradeEntry(pm, s, t, p, q, c, v)
        IN  /\ pm' = r.pm
            /\ call' = Call("record_trade_entry",
                            s \in DOMAIN pm.active_trades, r.raised,
                            None, None)
            /\ UNCHANGED <<threads, algo>>

Exit ==
    \E s \in Symbols, i \in Impacts : \E t \in ExitTimes(s), p \in ExitPrices(s) :
        LET r == RecordTradeExit(pm, s, t, p, i)
        IN  /\ s \in DOMAIN pm.active_trades => Len(pm.trades) < MaxTrades
            /\ pm' = r.pm
            /\ call' = Call("record_trade_exit",
                            s \in DOMAIN pm.active_trades, r.raised,
                            IF s \in DOMAIN pm.active_trades
                            THEN ExitArgs(s, t, p, i) ELSE None, None)
            /\ UNCHANGED <<threads, algo>>

Recompute ==
    LET r == UpdatePerformanceMetrics(pm)
    IN  /\ pm' = r.pm
        /\ call' = Call("_update_performance_metrics",
                        pm.trades # <<>>, r.raised, None, None)
        /\ UNCHANGED <<threads, algo>>

Optimize ==
    LET r == OptimizeParameters(pm)
    IN  /\ ~Gated(pm) => Len(pm.params_history) < MaxHistory
        /\ pm' = r.pm
        /\ call' = Call("optimize_parameters", ~Gated(pm), r.raised,
                        None, r.ret)
        /\ UNCHANGED <<threads, algo>>

Save ==
    \E sink \in Sinks :
        LET r == SaveMetrics(pm, sink)
        IN  /\ pm' = r.pm
            /\ call' = Call("save_metrics", sink = "none", r.raised,
                            None, r.ret)
            /\ UNCHANGED <<threads, algo>>

Next == Entry \/ Exit \/ Recompute \/ Optimize \/ Save

Spec == Init /\ [][Next]_vars

-----------------------------------------------------------------------------
(* The optimiser specification: one monitor with a window wide enough for  *)
(* the threshold search (a candidate needs more than MinSample trades, and *)
(* beats the window only on a proper part of it).  The first MaxOdd trades *)
(* are drawn from all the orders below; every later trade is the default   *)
(* order: confidence 0.7, closed at once with a profit.                    *)

OptConfidences(n) == IF n < MaxOdd THEN {650, 700} ELSE {700}
OptExitPrices(n) == IF n < MaxOdd THEN {90, 100, 110} ELSE {110}
OptExitTimes(n) == IF n < MaxOdd THEN {0, 1, 20} ELSE {0}

InitOpt ==
    /\ pm = NewMonitor(100, 600, OptWindow)
    /\ call = Call("__init__", FALSE, "none", None, None)
    /\ threads = NoThreads
    /\ algo = NoAlgo

EntryOpt ==
    \E c \in OptConfidences(Len(pm.trades)) :
        LET r == RecordTradeEntry(pm, "AAPL", 0, 100, 10, c, 1)
        IN  /\ pm' = r.pm
            /\ call' = Call("record_trade_entry",
                            "AAPL" \in DOMAIN pm.active_trades, r.raised,
                            None, None)
            /\ UNCHANGED <<threads, algo>>

ExitOpt ==
    \E t \in OptExitTimes(Len(pm.trades)),
       p \in OptExitPrices(Len(pm.trades)) :
        LET r == RecordTradeExit(pm, "AAPL", t, p, 1)
        IN  /\ "AAPL" \in DOMAIN pm.active_trades
                   => Len(pm.trades) < MaxOptTrades
            /\ pm' = r.pm
            /\ call' = Call("record_trade_exit",
                            "AAPL" \in DOMAIN pm.active_trades, r.raised,
                            IF "AAPL" \in DOMAIN pm.active_trades
                            THEN ExitArgs("AAPL", t, p, 1) ELSE None, None)
            /\ UNCHANGED <<threads, algo>>

OptimizeOpt ==
    LET r == OptimizeParameters(pm)
    IN  /\ ~Gated(pm) => Len(pm.params_history) < MaxOptimize
        /\ pm' = r.pm
        /\ call' = Call("optimize_parameters", ~Gated(pm), r.raised,
                        None, r.ret)
        /\ UNCHANGED <<threads, algo>>

NextOpt == EntryOpt \/ ExitOpt \/ OptimizeOpt

SpecOpt == InitOpt /\ [][NextOpt]_vars

-----------------------------------------------------------------------------
(* The specification of the position-size step.  The recompute never        *)
(* assigns max_drawdown (line 150 raises before line 163), so the monitor's *)
(* own calls leave it at 0.0 and reach the step with that value only.      *)
(* max_drawdown is a public attribute: here the monitor starts with a value *)
(* stored in it, below half the ceiling, at half, at the ceiling or above,  *)
(* and everything else is what the monitor's methods make of it.           *)

Drawdowns == {Frac(0, 100), Frac(1, 200), Frac(1, 100), Frac(2, 100), Frac(3, 100)}

InitStep ==
    /\ \E d \in Drawdowns :
           pm = [NewMonitor(100, 600, 1) EXCEPT !.max_drawdown = d]
    /\ call = Call("__init__", FALSE, "none", None, None)
    /\ threads = NoThreads
    /\ algo = NoAlgo

EntryStep ==
    LET r == RecordTradeEntry(pm, "AAPL", 0, 100, 10, 700, 1)
    IN  /\ pm' = r.pm
        /\ call' = Call("record_trade_entry",
                        "AAPL" \in DOMAIN pm.active_trades, r.raised,
                        None, None)
        /\ UNCHANGED <<threads, algo>>

ExitStep ==
    \E p \in {90, 110} :
        LET r == RecordTradeExit(pm, "AAPL", 20, p, 1)
        IN  /\ "AAPL" \in DOMAIN pm.active_trades
                   => Len(pm.trades) < MaxStepTrades
            /\ pm' = r.pm
            /\ call' = Call("record_trade_exit",
                            "AAPL" \in DOMAIN pm.active_trades, r.raised,
                            IF "AAPL" \in DOMAIN pm.active_trades
                            THEN ExitArgs("AAPL", 20, p, 1) ELSE None, None)
            /\ UNCHANGED <<threads, algo>>

OptimizeStep ==
    LET r == OptimizeParameters(pm)
    IN  /\ ~Gated(pm) => Len(pm.params_history) < MaxStepOptimize
        /\ pm' = r.pm
        /\ call' = Call("optimize_parameters", ~Gated(pm), r.raised,
                        None, r.ret)
        /\ UNCHANGED <<threads, algo>>

NextStep == EntryStep \/ ExitStep \/ OptimizeStep

SpecStep == InitStep /\ [][NextStep]_vars

-----------------------------------------------------------------------------
(* The concurrent specification: two threads call record_trade_entry and   *)
(* record_trade_exit on one monitor.  Neither method takes a lock, so the  *)
(* interpreter may switch threads between any two statements; a thread     *)
(* advances one statement at a time (the += of line 120 in two steps, the  *)
(* read and the store).  A TradeMetrics is an object shared by reference:  *)
(* the heap of the threads holds each object under its entry_time, which   *)
(* is different for every entry here, and a write to an object shows in    *)
(* the active map and in the closed list wherever the object is.           *)

Threads == {1, 2}

\* The calls of thread i: an exit of the open symbol at one of two prices, or
\* another entry for it (time and price are those of the entry or the exit).
ThreadCalls(i) ==
    {[op |-> "record_trade_exit", symbol |-> "AAPL", time |-> 20, price |-> p]
        : p \in {90, 110}}
    \cup {[op |-> "record_trade_entry", symbol |-> "AAPL", time |-> i,
           price |-> 100]}

IdleThread == [pc |-> "idle", cmd |-> None, trade |-> None, sum |-> None,
               raised |-> "none"]

\* A third thread reads the ledger while the others write it: it calls
\* _update_performance_metrics or optimize_parameters once.  view is the
\* monitor as it is when the call reads self.trades.
ReaderOps == {"_update_performance_metrics", "optimize_parameters"}
IdleReader == [pc |-> "idle", op |-> "none", view |-> None, raised |-> "none"]

\* A write to the object id: every reference to it shows the new value.
WriteObject(m, id, v) ==
    [m EXCEPT !.active_trades =
                  [s \in DOMAIN @ |-> IF @[s].entry_time = id THEN v ELSE @[s]],
              !.trades =
                  [k \in DOMAIN @ |-> IF @[k].entry_time = id THEN v ELSE @[k]]]

\* The monitor with one trade open, before the threads start.
InitConc ==
    /\ pm = RecordTradeEntry(NewMonitor(100, 600, LedgerWindow),
                             "AAPL", 0, 100, 10, 700, 1).pm
    /\ call = Call("record_trade_entry", FALSE, "none", None, None)
    /\ threads = [heap |-> [id \in {0} |-> pm.active_trades["AAPL"]],
                  start |-> pm,
                  t |-> [i \in Threads |-> IdleThread],
                  reader |-> IdleReader]
    /\ algo = NoAlgo

\* Thread i moves to the thread record th, with the heap h.
ThreadStep(i, th, h) ==
    /\ threads' = [threads EXCEPT !.t[i] = th, !.heap = h]
    /\ UNCHANGED <<call, algo>>

\* The call is made.
ThreadBegin ==
    \E i \in Threads : \E c \in ThreadCalls(i) :
        LET th == threads.t[i]
        IN  /\ th.pc = "idle"
            /\ pm' = pm
            /\ ThreadStep(i, [th EXCEPT !.cmd = Some(c),
                                        !.pc = IF c.op = "record_trade_exit"
                                               THEN "106" ELSE "85"],
                          threads.heap)

\* record_trade_entry, lines 85-96: the object is built and stored.
ThreadEntry ==
    \E i \in Threads :
        LET th == threads.t[i]
            c == th.cmd[1]
            trade == TradeMetrics(c.symbol, c.time, c.price, 10, 700, 1)
        IN  /\ th.pc = "85"
            /\ pm' = [pm EXCEPT !.active_trades = DictSet(@, c.symbol, trade)]
            /\ ThreadStep(i, [th EXCEPT !.pc = "done"],
                          [id \in DOMAIN threads.heap \cup {c.time} |->
                              IF id = c.time THEN trade ELSE threads.heap[id]])

\* record_trade_exit, lines 106-108: if symbol not in self.active_trades
ThreadCheck ==
    \E i \in Threads :
        LET th == threads.t[i]
            c == th.cmd[1]
        IN  /\ th.pc = "106"
            /\ pm' = pm
            /\ ThreadStep(i, [th EXCEPT !.pc = IF c.symbol \in DOMAIN pm.active_trades
                                               THEN "110" ELSE "done"],
                          threads.heap)

\* line 110: trade = self.active_trades[symbol]
ThreadLookup ==
    \E i \in Threads :
        LET th == threads.t[i]
            c == th.cmd[1]
        IN  /\ th.pc = "110"
            /\ pm' = pm
            /\ ThreadStep(i,
                          IF c.symbol \in DOMAIN pm.active_trades
                          THEN [th EXCEPT !.pc = "111",
                                          !.trade = Some(pm.active_trades[c.symbol].entry_time)]
                          ELSE [th EXCEPT !.pc = "done", !.raised = "KeyError"],
                          threads.heap)

\* lines 111-117: the fields of the trade are set
ThreadSetFields ==
    \E i \in Threads :
        LET th == threads.t[i]
            c == th.cmd[1]
            old == threads.heap[th.trade[1]]
            new == [old EXCEPT
                      !.exit_time = Some(c.time),
                      !.exit_price = Some(c.price),
                      !.market_impact = 1,
                      !.trade_duration = Some(TradeDuration(old.entry_time, c.time)),
                      !.pnl = Some(TradePnl(old.entry_price, c.price,
                                            old.position_size))]
        IN  /\ th.pc = "111"
            /\ pm' = WriteObject(pm, th.trade[1], new)
            /\ ThreadStep(i, [th EXCEPT !.pc = "120"],
                          [threads.heap EXCEPT ![th.trade[1]] = new])

\* line 120, the read: self.current_capital + trade.pnl
ThreadReadCapital ==
    \E i \in Threads :
        LET th == threads.t[i]
        IN  /\ th.pc = "120"
            /\ pm' = pm
            /\ ThreadStep(i, [th EXCEPT
                                !.pc = "120s",
                                !.sum = Some(CapitalAfter(pm.current_capital,
                                                 threads.heap[th.trade[1]].pnl[1]))],
                          threads.heap)

\* line 120, the store: self.current_capital = ...
ThreadStoreCapital ==
    \E i \in Threads :
        LET th == threads.t[i]
        IN  /\ th.pc = "120s"
            /\ pm' = [pm EXCEPT !.current_capital = th.sum[1]]
            /\ ThreadStep(i, [th EXCEPT !.pc = "123"], threads.heap)

\* line 123: self.trades.append(trade)
ThreadAppend ==
    \E i \in Threads :
        LET th == threads.t[i]
        IN  /\ th.pc = "123"
            /\ pm' = [pm EXCEPT !.trades = Append(@, threads.heap[th.trade[1]])]
            /\ ThreadStep(i, [th EXCEPT !.pc = "124"], threads.heap)

\* line 124: del self.active_trades[symbol]
ThreadDelete ==
    \E i \in Threads :
        LET th == threads.t[i]
            c == th.cmd[1]
        IN  /\ th.pc = "124"
            /\ IF c.symbol \in DOMAIN pm.active_trades
               THEN /\ pm' = [pm EXCEPT !.active_trades = DictDel(@, c.symbol)]
                    /\ ThreadStep(i, [th EXCEPT !.pc = "127"], threads.heap)
               ELSE /\ pm' = pm
                    /\ ThreadStep(i, [th EXCEPT !.pc = "done",
                                                !.raised = "KeyError"],
                                  threads.heap)

\* line 127: self._update_performance_metrics()
ThreadUpdate ==
    \E i \in Threads :
        LET th == threads.t[i]
            r == UpdatePerformanceMetrics(pm)
        IN  /\ th.pc = "127"
            /\ pm' = r.pm
            /\ ThreadStep(i, [th EXCEPT !.pc = "done", !.raised = r.raised],
                          threads.heap)

\* The reader makes its call.
ReaderBegin ==
    \E op \in ReaderOps :
        /\ threads.reader.pc = "idle"
        /\ pm' = pm
        /\ threads' = [threads EXCEPT !.reader.pc = "read", !.reader.op = op]
        /\ UNCHANGED <<call, algo>>

\* The call reads the closed list (lines 134-137 of the recompute, lines
\* 177-180 of the optimisation); it takes no lock, so it reads whatever the
\* writers have stored so far.
ReaderRead ==
    /\ threads.reader.pc = "read"
    /\ pm' = pm
    /\ threads' = [threads EXCEPT !.reader.pc = "write",
                                  !.reader.view = Some(pm)]
    /\ UNCHANGED <<call, algo>>

\* The call computes from what it read and stores its results: win_rate and
\* profit_factor for the recompute, the parameters and their history for the
\* optimisation.
ReaderWrite ==
    LET th == threads.reader
        r == IF th.op = "optimize_parameters"
             THEN OptimizeParameters(th.view[1])
             ELSE UpdatePerformanceMetrics(th.view[1])
    IN  /\ th.pc = "write"
        /\ pm' = [pm EXCEPT !.win_rate = r.pm.win_rate,
                            !.profit_factor = r.pm.profit_factor,
                            !.optimal_params = r.pm.optimal_params,
                            !.params_history = r.pm.params_history]
        /\ threads' = [threads EXCEPT !.reader.pc = "done",
                                      !.reader.raised = r.raised]
        /\ UNCHANGED <<call, algo>>

NextConc ==
    \/ ReaderBegin
    \/ ReaderRead
    \/ ReaderWrite
    \/ ThreadBegin
    \/ ThreadEntry
    \/ ThreadCheck
    \/ ThreadLookup
    \/ ThreadSetFields
    \/ ThreadReadCapital
    \/ ThreadStoreCapital
    \/ ThreadAppend
    \/ ThreadDelete
    \/ ThreadUpdate

SpecConc == InitConc /\ [][NextConc]_vars

-----------------------------------------------------------------------------
(* QuantTradingAlgorithm (src/trading_algorithm.py): run_live_trading with *)
(* the monitor it owns.  The broker, the market data and the signal model  *)
(* are outside the repository's files: what they answer is an input of the *)
(* step that asks them.  The time of an entry or an exit is the iteration  *)
(* count.                                                                  *)

\* Iterations of the trading loop.
MaxIterations == 10

\* optimization_interval = 10; the metrics are saved every 5 iterations.
OptimizationInterval == 10
SaveInterval == 5

LoopSymbols == <<"AAPL", "MSFT">>

\* QuantTradingAlgorithm.__init__, before run_live_trading is called.
\* base_position_size is in units of the position sizer's initial value.
NewAlgo ==
    [pc |-> "start",
     iteration_count |-> 0,
     i |-> 0,
     current_positions |-> EmptyDict,
     signal_cooldown |-> Int2F(60),
     base_position_size |-> Int2F(1),
     fault |-> "none",
     interrupted |-> FALSE,
     result |-> "running",
     raised |-> "none"]

\* _update_trading_parameters
UpdateTradingParameters(a, optimal_params) ==
    [a EXCEPT !.signal_cooldown = optimal_params.signal_cooldown,
              !.base_position_size =
                  Frac(@.num * optimal_params.position_size_factor.num,
                       @.den * optimal_params.position_size_factor.den)]

\* execute_trade: every exception is caught and logged inside.  The entry is
\* recorded before the order is placed; the position is set after it.
\* broker is what the broker does: "ok", "contract" (get_contract raises) or
\* "order" (placeOrder raises).
ExecuteTrade(m, positions, symbol, quantity, now, broker) ==
    LET r == RecordTradeEntry(m, symbol, now, 100, quantity, 700, 1)
        c == Call("record_trade_entry", symbol \in DOMAIN m.active_trades,
                  r.raised, None, None)
    IN  IF broker = "contract"
        THEN [pm |-> m, positions |-> positions, call |-> None]
        ELSE IF broker = "order"
        THEN [pm |-> r.pm, positions |-> positions, call |-> Some(c)]
        ELSE [pm |-> r.pm, positions |-> DictSet(positions, symbol, quantity),
              call |-> Some(c)]

\* plot_performance_metrics: returns at once without closed trades; with
\* closed trades and an empty history the column lookup of line 281 fails.
PlotPerformanceMetrics(m) ==
    IF m.trades = <<>> THEN "none"
    ELSE IF m.params_history = <<>> THEN "KeyError"
    ELSE "none"

\* close_position: nothing for a symbol without a position; otherwise the
\* exit is recorded, the closing order goes through execute_trade (which
\* records an entry and sets the position to the quantity of the order), the
\* parameters are optimised and the metrics plotted and saved.  No try: the
\* first exception ends it.
ClosePosition(m, a, symbol, now, broker, sink) ==
    IF ~(symbol \in DOMAIN a.current_positions
         /\ a.current_positions[symbol] # 0)
    THEN [pm |-> m, algo |-> a, call |-> None, raised |-> "none"]
    ELSE LET x == RecordTradeExit(m, symbol, now, 110, 1)
             xc == Call("record_trade_exit", symbol \in DOMAIN m.active_trades,
                        x.raised,
                        IF symbol \in DOMAIN m.active_trades
                        THEN ExitArgs(symbol, now, 110, 1) ELSE None, None)
             e == ExecuteTrade(x.pm, a.current_positions, symbol,
                               Abs(a.current_positions[symbol]), now, broker)
             o == OptimizeParameters(e.pm)
             a1 == UpdateTradingParameters(
                       [a EXCEPT !.current_positions = e.positions],
                       o.pm.optimal_params)
             s == SaveMetrics(o.pm, sink)
         IN  IF x.raised # "none"
             THEN [pm |-> x.pm, algo |-> a, call |-> Some(xc),
                   raised |-> x.raised]
             ELSE IF PlotPerformanceMetrics(o.pm) # "none"
             THEN [pm |-> o.pm, algo |-> a1,
                   call |-> Some(Call("optimize_parameters", ~Gated(e.pm),
                                      o.raised, None, o.ret)),
                   raised |-> PlotPerformanceMetrics(o.pm)]
             ELSE [pm |-> s.pm, algo |-> a1,
                   call |-> Some(Call("save_metrics", sink = "none",
                                      s.raised, None, s.ret)),
                   raised |-> s.raised]

InitLoop ==
    /\ pm = NewMonitor(100, 600, LedgerWindow)
    /\ call = Call("__init__", FALSE, "none", None, None)
    /\ threads = NoThreads
    /\ algo = NewAlgo

\* run_live_trading up to the loop: without a connection or without trading
\* permissions it returns; otherwise every symbol gets the position 0.
LoopStart ==
    \E answer \in {"ok", "no connection", "no permission"} :
        /\ algo.pc = "start"
        /\ algo' = IF answer = "ok"
                   THEN [algo EXCEPT
                           !.pc = "top",
                           !.current_positions =
                               [s \in {LoopSymbols[k] : k \in DOMAIN LoopSymbols}
                                  |-> 0]]
                   ELSE [algo EXCEPT !.pc = "ended", !.result = "return"]
        /\ UNCHANGED <<pm, call, threads>>

\* The head of an iteration: the count, and every 10th time the optimisation
\* and _update_trading_parameters, which may fail on the signal generator or
\* the position sizer.
LoopTop ==
    \E answer \in {"ok", "fault"} :
        LET n == algo.iteration_count + 1
            o == OptimizeParameters(pm)
            a == [algo EXCEPT !.iteration_count = n, !.fault = "none"]
        IN  /\ algo.pc = "top"
            /\ algo.iteration_count < MaxIterations
            /\ IF n % OptimizationInterval # 0
               THEN /\ answer = "ok"
                    /\ algo' = [a EXCEPT !.pc = "symbols", !.i = 1]
                    /\ UNCHANGED <<pm, call>>
               ELSE /\ pm' = o.pm
                    /\ call' = Call("optimize_parameters", ~Gated(pm),
                                    o.raised, None, o.ret)
                    /\ algo' = IF answer = "ok"
                               THEN [UpdateTradingParameters(a, o.pm.optimal_params)
                                       EXCEPT !.pc = "symbols", !.i = 1]
                               ELSE [a EXCEPT !.pc = "handler",
                                              !.fault = "Exception"]
            /\ UNCHANGED threads

\* The body of `for symbol in symbols` for one symbol.  answer is what the
\* collaborators do: "continue" (no connection, no data or no features),
\* "fault" (one of them raises), "no signal", or a valid signal, with what
\* the broker does with the order.  Every 5th iteration the metrics are
\* plotted and saved after it, unless the body was left by continue.
LoopSymbol ==
    \E answer \in {"continue", "fault", "no signal", "ok", "contract", "order"},
       sink \in Sinks :
        LET s == LoopSymbols[algo.i]
            e == IF answer \in {"ok", "contract", "order"}
                 THEN ExecuteTrade(pm, algo.current_positions, s, 10,
                                   algo.iteration_count, answer)
                 ELSE [pm |-> pm, positions |-> algo.current_positions,
                       call |-> None]
            saves == answer \notin {"continue", "fault"}
                     /\ algo.iteration_count % SaveInterval = 0
            plot == PlotPerformanceMetrics(e.pm)
            w == SaveMetrics(e.pm, sink)
            raised == IF answer = "fault" THEN "Exception"
                      ELSE IF ~saves THEN "none"
                      ELSE IF plot # "none" THEN plot
                      ELSE w.raised
            a == [algo EXCEPT !.current_positions = e.positions,
                              !.fault = raised]
        IN  /\ algo.pc = "symbols"
            /\ algo.i <= Len(LoopSymbols)
            /\ ~saves => sink = "none"
            /\ pm' = e.pm
            /\ call' = IF saves /\ plot = "none"
                       THEN Call("save_metrics", sink = "none", w.raised,
                                 None, w.ret)
                       ELSE IF e.call # None THEN e.call[1] ELSE call
            /\ algo' = IF raised # "none"
                       THEN [a EXCEPT !.pc = "handler"]
                       ELSE IF algo.i = Len(LoopSymbols)
                       THEN [a EXCEPT !.pc = "sleep"]
                       ELSE [a EXCEPT !.i = algo.i + 1]
            /\ UNCHANGED threads

\* time.sleep(60) at the end of an iteration.
LoopSleep ==
    /\ algo.pc = "sleep"
    /\ algo' = [algo EXCEPT !.pc = "top"]
    /\ UNCHANGED <<pm, call, threads>>

\* except Exception: the error is logged, time.sleep(60), and the while
\* goes on.
LoopHandler ==
    /\ algo.pc = "handler"
    /\ algo' = [algo EXCEPT !.pc = "top", !.fault = "none"]
    /\ UNCHANGED <<pm, call, threads>>

\* KeyboardInterrupt inside the try: the except clause starts to close the
\* positions, in the order of the symbols.
LoopInterrupt ==
    /\ algo.pc \in {"top", "symbols", "sleep"}
    /\ algo' = [algo EXCEPT !.pc = "closing", !.i = 1, !.interrupted = TRUE]
    /\ UNCHANGED <<pm, call, threads>>

\* close_position for one symbol of the except clause; an exception it
\* raises ends run_live_trading.
LoopClose ==
    \E broker \in {"ok", "contract", "order"}, sink \in Sinks :
        LET r == ClosePosition(pm, algo, LoopSymbols[algo.i],
                               algo.iteration_count, broker, sink)
        IN  /\ algo.pc = "closing"
            /\ algo.i <= Len(LoopSymbols)
            /\ pm' = r.pm
            /\ call' = IF r.call = None THEN call ELSE r.call[1]
            /\ algo' = IF r.raised # "none"
                       THEN [r.algo EXCEPT !.pc = "ended",
                                           !.result = "raised",
                                           !.raised = r.raised]
                       ELSE [r.algo EXCEPT !.i = algo.i + 1]
            /\ UNCHANGED threads

\* break, after the last symbol.
LoopBreak ==
    /\ algo.pc = "closing"
    /\ algo.i > Len(LoopSymbols)
    /\ algo' = [algo EXCEPT !.pc = "ended", !.result = "break"]
    /\ UNCHANGED <<pm, call, threads>>

\* KeyboardInterrupt during the sleep of the except clause: no handler is
\* left to catch it, run_live_trading ends with it.
LoopInterruptInHandler ==
    /\ algo.pc = "handler"
    /\ algo' = [algo EXCEPT !.pc = "ended", !.interrupted = TRUE,
                            !.result = "raised",
                            !.raised = "KeyboardInterrupt"]
    /\ UNCHANGED <<pm, call, threads>>

NextLoop ==
    \/ LoopStart
    \/ LoopTop
    \/ LoopSymbol
    \/ LoopSleep
    \/ LoopHandler
    \/ LoopInterrupt
    \/ LoopClose
    \/ LoopBreak
    \/ LoopInterruptInHandler

SpecLoop == InitLoop /\ [][NextLoop]_vars

-----------------------------------------------------------------------------
(* The optimise-then-apply cycle of the algorithm on a monitor that has     *)
(* closed trades: execute_trade and close_position are called on the       *)
(* algorithm (a close_position that records an exit ends with the          *)
(* TypeError of the recompute, after the trade is in the closed list), and *)
(* the cycle of lines 196-198 runs between them.  The monitor has a short  *)
(* evaluation window, so that the optimisation passes its gate after few   *)
(* trades.  The time of a call is the number of closed trades.             *)

\* Closed trades and optimisations of a run of the cycle.
MaxCycleTrades == 4
MaxCycles == 4

InitCycle ==
    /\ pm = NewMonitor(100, 600, LedgerWindow)
    /\ call = Call("__init__", FALSE, "none", None, None)
    /\ threads = NoThreads
    /\ algo = [NewAlgo EXCEPT !.current_positions = [s \in {"AAPL"} |-> 0]]

\* execute_trade(symbol, quantity, action)
CycleTrade ==
    \E broker \in {"ok", "contract", "order"} :
        LET e == ExecuteTrade(pm, algo.current_positions, "AAPL", 10,
                              Len(pm.trades), broker)
        IN  /\ pm' = e.pm
            /\ call' = Call("execute_trade", broker = "ok", "none", None, None)
            /\ algo' = [algo EXCEPT !.current_positions = e.positions]
            /\ UNCHANGED threads

\* close_position(symbol); the exception it raises is the caller's.  The
\* call has hit when the symbol had a position to close.
CycleClose ==
    \E broker \in {"ok", "contract", "order"}, sink \in Sinks :
        LET r == ClosePosition(pm, algo, "AAPL", Len(pm.trades), broker, sink)
        IN  /\ Len(r.pm.trades) <= MaxCycleTrades
            /\ Len(r.pm.params_history) <= MaxCycles
            /\ pm' = r.pm
            /\ call' = Call("close_position",
                            algo.current_positions["AAPL"] # 0, r.raised,
                            None, None)
            /\ algo' = [r.algo EXCEPT !.raised = r.raised]
            /\ UNCHANGED threads

\* Lines 196-198 of run_live_trading: optimize_parameters, then
\* _update_trading_parameters with the dict it returned.
CycleOptimize ==
    LET o == OptimizeParameters(pm)
    IN  /\ ~Gated(pm) => Len(pm.params_history) < MaxCycles
        /\ pm' = o.pm
        /\ call' = Call("optimize_parameters", ~Gated(pm), o.raised,
                        None, o.ret)
        /\ algo' = [UpdateTradingParameters(algo, o.pm.optimal_params)
                      EXCEPT !.raised = "none"]
        /\ UNCHANGED threads

NextCycle == CycleTrade \/ CycleClose \/ CycleOptimize

SpecCycle == InitCycle /\ [][NextCycle]_vars

-----------------------------------------------------------------------------
(* IBKRDataFeed (src/ibkr_data_feed.py), the feed the algorithm owns as    *)
(* self.ibkr_feed, with its client, an IBKRTester (src/test_ibkr.py).  The *)
(* socket and the EClient base class are outside the repository: what they *)
(* answer is an input of the step that asks them.  The callbacks of the    *)
(* client run on the API threads that connect() starts, at any time.       *)

\* max_attempts = 3
MaxAttempts == 3
\* The polls of the wait loop that fit in its timeout (10 s, one poll every
\* 0.1 s), and the calls of connect() on one feed.
WaitPolls == 2
MaxConnectCalls == 2

\* IBKRDataFeed.__init__: the client is new, connected is False.  socket is
\* what EClient.isConnected() answers.
NewFeed ==
    [pc |-> "idle", calls |-> 0, attempt |-> 0, attempts |-> 0, polls |-> 0,
     error |-> "none",
     client |-> [connected |-> FALSE, socket |-> FALSE]]

InitFeed ==
    /\ pm = NewMonitor(100, 600, LedgerWindow)
    /\ call = Call("__init__", FALSE, "none", None, None)
    /\ threads = [api |-> 0]
    /\ algo = [pc |-> "feed", ibkr_feed |-> NewFeed]

\* The feed moves to f.
FeedStep(f) ==
    /\ algo' = [algo EXCEPT !.ibkr_feed = f]
    /\ UNCHANGED <<pm, call>>

\* Mutant: no attempt is the last one.
LastAttemptNever(attempt) == FALSE

\* if attempt == max_attempts - 1
LastAttempt(attempt) == attempt = MaxAttempts - 1

\* except Exception as e (line 65) for an attempt that failed with error:
\* the last attempt raises it again, through the outer except clause, which
\* logs and raises again; any other waits 5 seconds for the next.
AttemptFailed(f, error) ==
    IF LastAttempt(f.attempt)
    THEN [f EXCEPT !.pc = "raised", !.error = error]
    ELSE [f EXCEPT !.pc = "retry", !.error = error]

\* connect() is called.
FeedCall ==
    LET f == algo.ibkr_feed
    IN  /\ f.pc \in {"idle", "returned", "raised"}
        /\ f.calls < MaxConnectCalls
        /\ FeedStep([f EXCEPT !.pc = "check", !.calls = @ + 1,
                              !.attempt = 0, !.attempts = 0, !.polls = 0,
                              !.error = "none"])
        /\ UNCHANGED threads

\* line 27: if not self.client.isConnected(); the else branch logs and
\* returns.
FeedCheck ==
    LET f == algo.ibkr_feed
    IN  /\ f.pc = "check"
        /\ FeedStep([f EXCEPT !.pc = IF f.client.socket
                                     THEN "returned" ELSE "probe"])
        /\ UNCHANGED threads

\* lines 33-43: the port is probed; a closed port and a failing probe both
\* end in a ConnectionError, before any attempt.
FeedProbe ==
    \E result \in {"open", "closed", "error"} :
        LET f == algo.ibkr_feed
        IN  /\ f.pc = "probe"
            /\ FeedStep(IF result = "open"
                        THEN [f EXCEPT !.pc = "attempt"]
                        ELSE [f EXCEPT !.pc = "raised",
                                       !.error = "ConnectionError: probe"])
            /\ UNCHANGED threads

\* lines 48-57: client.connect, then the API thread is started and the
\* wait begins.  connect may raise, return connected, or return without a
\* connection (EClient reports a refused socket through its error callback).
FeedAttempt ==
    \E outcome \in {"connected", "refused", "raise"} :
        LET f == [algo.ibkr_feed EXCEPT !.attempts = @ + 1]
        IN  /\ f.pc = "attempt"
            /\ IF outcome = "raise"
               THEN /\ FeedStep(AttemptFailed(f, "Exception: connect"))
                    /\ UNCHANGED threads
               ELSE /\ FeedStep([f EXCEPT !.pc = "wait", !.polls = 0,
                                          !.client.socket =
                                              outcome = "connected"])
                    /\ threads' = [threads EXCEPT !.api = @ + 1]

\* lines 58-59, the loop goes on: time.sleep(0.1)
FeedPoll ==
    LET f == algo.ibkr_feed
    IN  /\ f.pc = "wait"
        /\ ~f.client.connected
        /\ f.polls < WaitPolls
        /\ FeedStep([f EXCEPT !.polls = @ + 1])
        /\ UNCHANGED threads

\* line 58, the loop ends: the flag is set or the timeout has passed.
FeedWaitEnd ==
    LET f == algo.ibkr_feed
    IN  /\ f.pc = "wait"
        /\ f.client.connected \/ f.polls >= WaitPolls
        /\ FeedStep([f EXCEPT !.pc = "61"])
        /\ UNCHANGED threads

\* lines 61-64: the flag is read again; not set, the attempt has failed
\* with a ConnectionError; set, break.
FeedAfterWait ==
    LET f == algo.ibkr_feed
    IN  /\ f.pc = "61"
        /\ FeedStep(IF f.client.connected
                    THEN [f EXCEPT !.pc = "final"]
                    ELSE AttemptFailed(f, "ConnectionError: timeout"))
        /\ UNCHANGED threads

\* lines 68-69 and the next turn of `for attempt in range(max_attempts)`:
\* time.sleep(5); after the last turn the loop is over.
FeedRetry ==
    LET f == algo.ibkr_feed
    IN  /\ f.pc = "retry"
        /\ FeedStep(IF f.attempt + 1 < MaxAttempts
                    THEN [f EXCEPT !.pc = "attempt", !.attempt = @ + 1]
                    ELSE [f EXCEPT !.pc = "final"])
        /\ UNCHANGED threads

\* lines 73-76: the final check.
FeedFinal ==
    LET f == algo.ibkr_feed
    IN  /\ f.pc = "final"
        /\ FeedStep(IF f.client.socket
                    THEN [f EXCEPT !.pc = "returned", !.error = "none"]
                    ELSE [f EXCEPT !.pc = "raised",
                                   !.error = "ConnectionError: lost"])
        /\ UNCHANGED threads

\* IBKRTester.nextValidId, called on an API thread of a connected client.
NextValidId ==
    LET f == algo.ibkr_feed
    IN  /\ threads.api > 0
        /\ f.client.socket
        /\ ~f.client.connected
        /\ FeedStep([f EXCEPT !.client.connected = TRUE])
        /\ UNCHANGED threads

\* IBKRTester.connectionClosed, called when the connection is dropped.
ConnectionClosed ==
    LET f == algo.ibkr_feed
    IN  /\ f.client.socket
        /\ FeedStep([f EXCEPT !.client.connected = FALSE,
                              !.client.socket = FALSE])
        /\ UNCHANGED threads

\* The steps of the thread that called connect().
FeedMain ==
    \/ FeedCheck
    \/ FeedProbe
    \/ FeedAttempt
    \/ FeedPoll
    \/ FeedWaitEnd
    \/ FeedAfterWait
    \/ FeedRetry
    \/ FeedFinal

NextFeed == FeedCall \/ FeedMain \/ NextValidId \/ ConnectionClosed

\* The calling thread is scheduled, and the calls it makes (the probe,
\* client.connect, time.sleep) return: once inside connect() it takes its
\* next step.  Nothing is assumed of the callbacks.
SpecFeed == InitFeed /\ [][NextFeed]_vars /\ WF_vars(FeedMain)

-----------------------------------------------------------------------------
(* What the properties are stated with: the ledger read directly, not      *)
(* through the operators of the monitor.                                   *)

Min(a, b) == IF a < b THEN a ELSE b

\* The trailing window: the last evaluation_window closed trades, or all of
\* them when there are fewer.
Window(m) ==
    LET n == Len(m.trades)
        k == Min(n, m.evaluation_window)
    IN  [i \in 1..k |-> m.trades[n - k + i]]

RECURSIVE PnlTotal(_)
PnlTotal(trades) ==
    IF trades = <<>> THEN 0
    ELSE trades[Len(trades)].pnl[1]
         + PnlTotal(SubSeq(trades, 1, Len(trades) - 1))

RECURSIVE ProfitTotal(_)
ProfitTotal(trades) ==
    IF trades = <<>> THEN 0
    ELSE (IF Head(trades).pnl[1] > 0 THEN Head(trades).pnl[1] ELSE 0)
         + ProfitTotal(Tail(trades))

RECURSIVE LossTotal(_)
LossTotal(trades) ==
    IF trades = <<>> THEN 0
    ELSE (IF Head(trades).pnl[1] < 0 THEN -Head(trades).pnl[1] ELSE 0)
         + LossTotal(Tail(trades))

IsCall(c, op) == c.op = op

-----------------------------------------------------------------------------
(* The ledger.                                                             *)

\* C1: in every reachable state current_capital is initial_capital plus the
\* sum of the pnl of the closed trades.
C1_CapitalIsInitialPlusPnl ==
    pm.current_capital = pm.initial_capital + PnlTotal(pm.trades)

\* Two losing trades closed: the capital has moved, below zero.
C1_Witness ==
    /\ Len(pm.trades) = 2
    /\ PnlTotal(pm.trades) = -200
    /\ pm.current_capital = -100

\* C2: an entry for a symbol that already has an active trade fails with
\* DuplicateTradeError and changes nothing.
C2_DuplicateEntryRejected ==
    [][IsCall(call', "record_trade_entry") /\ call'.hit
          => call'.raised = "DuplicateTradeError" /\ pm' = pm]_vars

\* C3: an exit for a symbol without an active trade raises nothing and
\* changes nothing of the monitor.
C3_MissingExitIsNoOp ==
    [][IsCall(call', "record_trade_exit") /\ ~call'.hit
          => call'.raised = "none" /\ pm' = pm]_vars

\* An exit that found no trade, with another symbol active and a trade closed.
C3_Witness ==
    /\ IsCall(call, "record_trade_exit")
    /\ ~call.hit
    /\ pm.active_trades # EmptyDict
    /\ pm.trades # <<>>

\* C4: an exit for a symbol with an active trade closes exactly that trade:
\* pnl = (exit_price - entry_price) * position_size, duration = exit_time -
\* entry_time, the record goes last in the closed list and leaves the active
\* map, and its pnl is added to the capital, whatever the sign of the result.
C4_ExitClosesTheTrade ==
    [][IsCall(call', "record_trade_exit") /\ call'.hit
          => LET a == call'.args[1]
                 old == pm.active_trades[a.symbol]
                 pnl == (a.exit_price - old.entry_price) * old.position_size
                 new == [old EXCEPT !.exit_time = Some(a.exit_time),
                                    !.exit_price = Some(a.exit_price),
                                    !.pnl = Some(pnl),
                                    !.trade_duration =
                                        Some(a.exit_time - old.entry_time),
                                    !.market_impact = a.market_impact]
             IN  /\ pm'.trades = pm.trades \o <<new>>
                 /\ DOMAIN pm'.active_trades
                        = DOMAIN pm.active_trades \ {a.symbol}
                 /\ \A s \in DOMAIN pm'.active_trades :
                        pm'.active_trades[s] = pm.active_trades[s]
                 /\ pm'.current_capital = pm.current_capital + pnl]_vars

\* A losing exit has taken the capital below zero.
C4_Witness ==
    /\ IsCall(call, "record_trade_exit")
    /\ call.hit
    /\ pm.trades[Len(pm.trades)].pnl = Some(-100)
    /\ pm.current_capital < 0

\* C5: with fewer than evaluation_window closed trades an optimisation
\* returns the parameters as they were, changes none of them and appends
\* nothing to the history.
C5_GatedOptimizeChangesNothing ==
    [][IsCall(call', "optimize_parameters")
          /\ Len(pm.trades) < pm.evaluation_window
          => /\ call'.ret = Some(pm.optimal_params)
             /\ pm'.optimal_params = pm.optimal_params
             /\ pm'.params_history = pm.params_history]_vars

\* An optimisation one trade short of the window.
C5_Witness ==
    /\ IsCall(call, "optimize_parameters")
    /\ ~call.hit
    /\ Len(pm.trades) = pm.evaluation_window - 1

-----------------------------------------------------------------------------
(* The parameters and the metrics.                                         *)

\* C6: in every reachable state confidence_threshold is in (0, 1),
\* position_size_factor in [0.2, 2.0] and signal_cooldown in [30, 300].
C6_ParametersInRange ==
    LET p == pm.optimal_params
    IN  /\ 0 < p.confidence_threshold /\ p.confidence_threshold < 1000
        /\ p.position_size_factor.den > 0
        /\ 2 * p.position_size_factor.den <= 10 * p.position_size_factor.num
        /\ p.position_size_factor.num <= 2 * p.position_size_factor.den
        /\ p.signal_cooldown.den > 0
        /\ 30 * p.signal_cooldown.den <= p.signal_cooldown.num
        /\ p.signal_cooldown.num <= 300 * p.signal_cooldown.den

\* Four optimisations of a winning window: the factor stands at its upper
\* limit, the cooldown at one of its limits, the threshold has moved.
C6_Witness ==
    /\ Len(pm.params_history) = 4
    /\ pm.optimal_params.position_size_factor = [num |-> 2, den |-> 1]
    /\ pm.optimal_params.signal_cooldown = [num |-> 300, den |-> 1]
    /\ pm.optimal_params.confidence_threshold # 600

\* C7: an optimisation never raises, whatever the closed trades.
C7_OptimizeNeverRaises ==
    IsCall(call, "optimize_parameters")
        => call.raised = "none" /\ call.ret = Some(pm.optimal_params)

\* An optimisation that passed the gate on a window whose trades all have
\* pnl 0 and duration 0 (no candidate has more than MinSample trades).
C7_Witness ==
    /\ IsCall(call, "optimize_parameters")
    /\ call.hit
    /\ \A i \in DOMAIN Window(pm) :
          /\ Window(pm)[i].pnl = Some(0)
          /\ Window(pm)[i].trade_duration = Some(0)

MetricsOf(m) ==
    <<m.win_rate, m.profit_factor, m.daily_returns, m.sharpe_ratio,
      m.max_drawdown>>

\* C8: a recompute that follows a recompute leaves win_rate, profit_factor,
\* daily_returns, sharpe_ratio and max_drawdown as the first left them.
C8_RecomputeIdempotent ==
    [][IsCall(call, "_update_performance_metrics")
          /\ IsCall(call', "_update_performance_metrics")
          => MetricsOf(pm') = MetricsOf(pm)]_vars

\* A recompute on a ledger with a winning and a losing trade.
C8_Witness ==
    /\ IsCall(call, "_update_performance_metrics")
    /\ call.hit
    /\ ProfitTotal(pm.trades) > 0
    /\ LossTotal(pm.trades) > 0

NominalGrid == {500 + 50 * i : i \in 0..7}

Wins(w, S) == Cardinality({i \in S : w[i].pnl[1] > 0})

\* No candidate with more than 10 window trades at or above it has a win
\* rate above the window's.
NoCandidateBeats(m) ==
    LET w == Window(m)
        all == DOMAIN w
    IN  \A c \in NominalGrid :
            LET sub == {i \in all : w[i].signal_confidence >= c}
            IN  Cardinality(sub) > 10
                    => ~(Wins(w, sub) * Cardinality(all)
                             > Wins(w, all) * Cardinality(sub))

\* C10: an optimisation that passes the gate and finds no candidate above
\* the window's win rate leaves confidence_threshold as it was before the
\* call.
C10_ThresholdKeptWithoutBetterCandidate ==
    [][IsCall(call', "optimize_parameters")
          /\ Len(pm.trades) >= pm.evaluation_window
          /\ NoCandidateBeats(pm)
          => pm'.optimal_params.confidence_threshold
                 = pm.optimal_params.confidence_threshold]_vars

-----------------------------------------------------------------------------
(* The threshold search.                                                   *)

\* The window trades at or above a confidence.
AtLeast(w, c) == {i \in DOMAIN w : w[i].signal_confidence >= c}

\* The win rate of the trades S is above that of the trades T.
RateAbove(w, S, T) ==
    Wins(w, S) * Cardinality(T) > Wins(w, T) * Cardinality(S)

\* The trades at or above 0.70 are more than 10, and win more often than the
\* whole window and than the trades of every other candidate that has more
\* than 10.
Best070(m) ==
    LET w == Window(m)
        sub == AtLeast(w, 700)
    IN  /\ Cardinality(sub) > 10
        /\ RateAbove(w, sub, DOMAIN w)
        /\ \A c \in NominalGrid \ {700} :
               Cardinality(AtLeast(w, c)) > 10
                   => RateAbove(w, sub, AtLeast(w, c))

\* C11: an optimisation that passes the gate on a window whose trades at or
\* above 0.70 are the best candidate sets confidence_threshold to 0.70 (0.70
\* itself or the float the grid holds for it), and not below its value
\* before the call.
C11_BestCandidate070Selected ==
    [][IsCall(call', "optimize_parameters")
          /\ Len(pm.trades) >= pm.evaluation_window
          /\ Best070(pm)
          => /\ pm'.optimal_params.confidence_threshold \in {700, 701}
             /\ pm'.optimal_params.confidence_threshold
                    >= pm.optimal_params.confidence_threshold]_vars

-----------------------------------------------------------------------------
(* The position-size step.                                                 *)

\* The fraction f is n / d (both in lowest terms).
IsRatio(f, n, d) == f = Frac(n, d)

\* The fraction f is n / d clamped to [0.2, 2.0].
IsClamped(f, n, d) ==
    IF 10 * n < 2 * d THEN IsRatio(f, 1, 5)
    ELSE IF n > 2 * d THEN IsRatio(f, 2, 1)
    ELSE IsRatio(f, n, d)

\* C12: an optimisation that passes the gate multiplies position_size_factor
\* by 0.8 when max_drawdown is above the ceiling (0.02), whatever the win
\* rate; else by 1.2 when win_rate is above the target (0.55) and
\* max_drawdown below half the ceiling; else by 1; the product is clamped to
\* [0.2, 2.0].
C12_SizeStepByPriority ==
    [][IsCall(call', "optimize_parameters")
          /\ Len(pm.trades) >= pm.evaluation_window
          => LET f == pm.optimal_params.position_size_factor
                 g == pm'.optimal_params.position_size_factor
                 dd == pm.max_drawdown
                 wr == pm.win_rate
             IN  IF 100 * dd.num > 2 * dd.den
                 THEN IsClamped(g, 8 * f.num, 10 * f.den)
                 ELSE IF 100 * wr.num > 55 * wr.den /\ 100 * dd.num < dd.den
                      THEN IsClamped(g, 12 * f.num, 10 * f.den)
                      ELSE g = f]_vars

\* A winning window with the drawdown above the ceiling: the factor has gone
\* down twice.
C12_Witness ==
    /\ IsCall(call, "optimize_parameters")
    /\ call.hit
    /\ pm.max_drawdown = Frac(3, 100)
    /\ pm.win_rate = Int2F(1)
    /\ Len(pm.params_history) = 2
    /\ pm.params_history[1].metrics.win_rate = Int2F(1)
    /\ pm.optimal_params.position_size_factor = Frac(64, 100)

-----------------------------------------------------------------------------
(* The parameter history.                                                  *)

\* C13: an optimisation that passes the gate appends exactly one entry to
\* params_history, holding the parameters that result from the call and
\* win_rate, profit_factor, sharpe_ratio and max_drawdown as they are then;
\* every other call leaves the history as it is, and no call removes,
\* reorders or alters an entry that is already there.
C13_HistoryAppendOnly ==
    [][LET h == pm.params_history
           k == pm'.params_history
       IN  IF IsCall(call', "optimize_parameters")
              /\ Len(pm.trades) >= pm.evaluation_window
           THEN /\ Len(k) = Len(h) + 1
                /\ SubSeq(k, 1, Len(h)) = h
                /\ k[Len(k)].params = pm'.optimal_params
                /\ k[Len(k)].metrics = [win_rate |-> pm'.win_rate,
                                        profit_factor |-> pm'.profit_factor,
                                        sharpe_ratio |-> pm'.sharpe_ratio,
                                        max_drawdown |-> pm'.max_drawdown]
           ELSE k = h]_vars

\* Three optimisations that each changed the live parameters: the entries
\* differ from one another and the last one holds the live parameters.
C13_Witness ==
    /\ IsCall(call, "optimize_parameters")
    /\ call.hit
    /\ Len(pm.params_history) = 3
    /\ pm.params_history[1].params # pm.params_history[2].params
    /\ pm.params_history[2].params # pm.params_history[3].params
    /\ pm.params_history[1].params.confidence_threshold
           # pm.optimal_params.confidence_threshold
    /\ pm.params_history[1].metrics # pm.params_history[3].metrics

-----------------------------------------------------------------------------
(* The export.                                                             *)

\* C14: save_metrics leaves the monitor as it was (active map, closed list,
\* capital, metrics, parameters, history), whether the sink takes the write
\* or fails, and a failure of the sink reaches the caller as an exception.
C14_SaveMetricsChangesNothing ==
    [][IsCall(call', "save_metrics")
          => /\ pm' = pm
             /\ ~call'.hit => call'.raised # "none"
             /\ call'.hit => call'.raised = "none"]_vars

\* A failed export of a monitor that holds an active trade, a closed trade
\* and a history entry.
C14_Witness ==
    /\ IsCall(call, "save_metrics")
    /\ ~call.hit
    /\ call.raised = "OSError"
    /\ pm.active_trades # EmptyDict
    /\ pm.trades # <<>>
    /\ pm.params_history # <<>>

-----------------------------------------------------------------------------
(* Concurrent callers.                                                     *)

\* A call made on its own: the monitor after it and what it raised.
Alone(m, c) ==
    IF c.op = "record_trade_entry"
    THEN RecordTradeEntry(m, c.symbol, c.time, c.price, 10, 700, 1)
    ELSE RecordTradeExit(m, c.symbol, c.time, c.price, 1)

\* Thread i made its call first and thread j after it.
InOrder(i, j) ==
    LET first == Alone(threads.start, threads.t[i].cmd[1])
        second == Alone(first.pm, threads.t[j].cmd[1])
    IN  /\ pm = second.pm
        /\ threads.t[i].raised = first.raised
        /\ threads.t[j].raised = second.raised

\* Both calls have returned, and no third thread has been at work.
BothDone ==
    /\ \A i \in Threads : threads.t[i].pc = "done"
    /\ threads.reader.pc = "idle"

\* C15: when two threads have each made one call of record_trade_entry or
\* record_trade_exit, the monitor is what one of the two serial orders of the
\* calls leaves, and each call has raised what it raises in that order: two
\* exits of one open trade give one closed record, one change of the capital
\* and no KeyError.
C15_ConcurrentCallsSerialise ==
    BothDone => InOrder(1, 2) \/ InOrder(2, 1)

-----------------------------------------------------------------------------
(* The trading loop.                                                       *)

\* An exception raised inside an iteration is caught: the loop is in its
\* except clause and goes on from there, and it ends on a manual interrupt
\* only.
FaultsKeepTheLoop ==
    /\ algo'.fault # "none" => algo'.pc = "handler" \/ algo.pc = "handler"
    /\ algo.pc = "handler" => algo'.pc = "top" \/ algo'.interrupted
    /\ algo.pc # "start" /\ algo'.pc = "ended" => algo'.interrupted

\* The ledger raises nothing but DuplicateTradeError.
LedgerRaisesDuplicateOnly ==
    IsCall(call', "record_trade_entry") \/ IsCall(call', "record_trade_exit")
        => call'.raised \in {"none", "DuplicateTradeError"}

\* C16: no exception raised inside an iteration of run_live_trading ends the
\* loop, which goes on to a later iteration and ends on a manual interrupt
\* only; and the only exception the ledger raises is DuplicateTradeError.
C16_LoopSurvivesFaults ==
    [][FaultsKeepTheLoop /\ LedgerRaisesDuplicateOnly]_vars


\* C17: an optimisation that changes confidence_threshold sets it to a
\* candidate of the grid 0.50, 0.55, ..., 0.85 (the decimal or the float the
\* grid holds for it) at or above which the window has more than 10 trades,
\* whose win rate is above that of the whole window.
C17_NewThresholdIsEligibleCandidate ==
    [][IsCall(call', "optimize_parameters")
          /\ pm'.optimal_params.confidence_threshold
                 # pm.optimal_params.confidence_threshold
          => LET new == pm'.optimal_params.confidence_threshold
                 w == Window(pm)
             IN  /\ \E c \in NominalGrid : new \in {c, c + 1}
                 /\ Cardinality(AtLeast(w, new)) > 10
                 /\ RateAbove(w, AtLeast(w, new), DOMAIN w)]_vars

-----------------------------------------------------------------------------
(* The cooldown.                                                           *)

\* The seconds the trades of a window lasted, summed (a unit of time is 100
\* seconds).
RECURSIVE SecondsTotal(_)
SecondsTotal(trades) ==
    IF trades = <<>> THEN 0
    ELSE Head(trades).trade_duration[1] * 100 + SecondsTotal(Tail(trades))

\* C18: an optimisation that passes the gate sets signal_cooldown to 20% of
\* the average duration of the window's trades, clamped to [30, 300], when
\* that average is positive, and leaves it as it was when the average is zero.
C18_CooldownFromAverageDuration ==
    [][IsCall(call', "optimize_parameters")
          /\ Len(pm.trades) >= pm.evaluation_window
          => LET w == Window(pm)
                 total == SecondsTotal(w)
                 n == Len(w)
                 new == pm'.optimal_params.signal_cooldown
             IN  IF total > 0
                 THEN new = IF total < 150 * n THEN Int2F(30)
                            ELSE IF total > 1500 * n THEN Int2F(300)
                            ELSE Frac(total, 5 * n)
                 ELSE total = 0
                          => new = pm.optimal_params.signal_cooldown]_vars

-----------------------------------------------------------------------------
(* The metrics of the window.                                              *)

\* C19: win_rate is the number of trades with pnl > 0 among the last
\* evaluation_window closed trades (all of them when there are fewer) over
\* the number of those trades with pnl set; it lies in [0, 1] and is 0 when
\* no trade has been closed; a trade with pnl 0 counts below the line only.
C19_WinRateOfWindow ==
    LET w == Window(pm)
        set == {i \in DOMAIN w : w[i].pnl # None}
        won == {i \in set : w[i].pnl[1] > 0}
    IN  /\ pm.win_rate.den > 0
        /\ 0 <= pm.win_rate.num /\ pm.win_rate.num <= pm.win_rate.den
        /\ IF pm.trades = <<>> THEN pm.win_rate.num = 0
           ELSE pm.win_rate.num * Cardinality(set)
                    = Cardinality(won) * pm.win_rate.den

\* More closed trades than the window holds: the first one, not a winner,
\* has left the window; before it left, it counted below the line.
C19_Witness ==
    /\ IsCall(call, "record_trade_exit")
    /\ call.hit
    /\ Len(pm.trades) = pm.evaluation_window + 1
    /\ pm.trades[1].pnl = Some(0)
    /\ pm.win_rate = Int2F(1)


\* A recompute has run on a ledger with closed trades: called directly, or at
\* the end of an exit that closed a trade.
Recomputed ==
    /\ pm'.trades # <<>>
    /\ \/ IsCall(call', "_update_performance_metrics")
       \/ IsCall(call', "record_trade_exit") /\ call'.hit

\* C20: a recompute on a window with fewer than 2 daily points (every trade
\* of the window closed on the same day, so there is at most one) leaves
\* sharpe_ratio as it was and refreshes the other metrics: win_rate and
\* profit_factor are those of the window, daily_returns is the day's pnl
\* over the initial capital when that pnl is not zero, and max_drawdown,
\* with one point, is 0.
C20_SharpeKeptOthersRefreshed ==
    [][Recomputed /\ (\A i, j \in DOMAIN Window(pm') :
                          DayOf(Window(pm')[i].exit_time[1])
                              = DayOf(Window(pm')[j].exit_time[1]))
          => LET w == Window(pm')
             IN  /\ pm'.sharpe_ratio = pm.sharpe_ratio
                 /\ pm'.win_rate = Frac(Wins(w, DOMAIN w), Len(w))
                 /\ LossTotal(w) > 0
                        => pm'.profit_factor = Frac(ProfitTotal(w), LossTotal(w))
                 /\ PnlTotal(w) # 0
                        => pm'.daily_returns
                               = <<Frac(PnlTotal(w), pm'.initial_capital)>>
                 /\ pm'.max_drawdown = Int2F(0)]_vars


-----------------------------------------------------------------------------
(* Daily returns and drawdown.                                             *)

\* The calendar days on which a trade of the window was closed.
TradingDays(w) == {DayOf(w[i].exit_time[1]) : i \in DOMAIN w}

\* The pnl of the window's trades closed on day d, summed.
RECURSIVE DayPnl(_, _)
DayPnl(w, d) ==
    IF w = <<>> THEN 0
    ELSE (IF DayOf(Head(w).exit_time[1]) = d THEN Head(w).pnl[1] ELSE 0)
         + DayPnl(Tail(w), d)

\* One point per day of the set, in day order: the day's pnl over capital.
RECURSIVE PointsOf(_, _, _)
PointsOf(days, w, capital) ==
    IF days = {} THEN <<>>
    ELSE LET d == CHOOSE x \in days : \A y \in days : x <= y
         IN  <<Frac(DayPnl(w, d), capital)>>
                 \o PointsOf(days \ {d}, w, capital)

\* C21: after a recompute daily_returns has exactly one point per calendar
\* day on which a trade of the window was closed, the day's summed pnl over
\* initial_capital, and no point for any other day.
C21_DailyReturnsPerTradingDay ==
    [][Recomputed
          => LET w == Window(pm')
             IN  pm'.daily_returns
                     = PointsOf(TradingDays(w), w, pm'.initial_capital)]_vars


\* (1 + r) for a daily return r, and the product and quotient of fractions.
OnePlus(r) == Frac(r.num + r.den, r.den)
FTimes(a, b) == Frac(a.num * b.num, a.den * b.den)
FMax(a, b) == IF FLt(a, b) THEN b ELSE a

\* The relative decline of cum from peak, for a positive peak.
Decline(peak, cum) ==
    Frac(peak.num * cum.den - cum.num * peak.den, peak.num * cum.den)

\* The largest decline of the cumulative product of (1 + r) from its running
\* peak over the points from the i-th on, given the product and the peak
\* before them and the largest decline so far.
RECURSIVE MaxDecline(_, _, _, _, _)
MaxDecline(points, i, cum, peak, worst) ==
    IF i > Len(points) THEN worst
    ELSE LET c == FTimes(cum, OnePlus(points[i]))
             p == IF i = 1 THEN c ELSE FMax(peak, c)
             d == IF p.num > 0 THEN Decline(p, c) ELSE Int2F(0)
         IN  MaxDecline(points, i + 1, c, p, FMax(worst, d))

\* The trades of the window that line 150 keeps: those with a non-zero pnl.
WithPnl(w) == SelectSeq(w, LAMBDA t : t.pnl[1] # 0)

\* C22: after a recompute max_drawdown is the largest relative decline of
\* the cumulative product of (1 + daily return) from its running peak, a
\* finite number that is not negative, and 0 when the window gives no point.
C22_MaxDrawdownOfWindow ==
    [][Recomputed
          => LET w == WithPnl(Window(pm'))
                 points == PointsOf(TradingDays(w), w, pm'.initial_capital)
             IN  /\ pm'.max_drawdown.den > 0
                 /\ pm'.max_drawdown.num >= 0
                 /\ pm'.max_drawdown
                        = MaxDecline(points, 1, Int2F(1), Int2F(1), Int2F(0))]_vars


-----------------------------------------------------------------------------
(* The closed list.                                                        *)

\* C23: in every reachable state the closed list is in non-decreasing
\* exit_time order, whatever the order of the exit times the calls gave.
C23_ClosedListInExitTimeOrder ==
    \A i, j \in DOMAIN pm.trades :
        i < j => pm.trades[i].exit_time[1] <= pm.trades[j].exit_time[1]


\* C24: a record of the closed list is never changed by a later call, be it
\* an entry, an exit (of the same symbol or another), a recompute, an
\* optimisation or an export; its pnl is assigned when it is closed and at
\* no other time: an active trade has none, a closed trade has one.
C24_ClosedRecordsImmutable ==
    [][/\ Len(pm'.trades) >= Len(pm.trades)
       /\ \A i \in DOMAIN pm.trades : pm'.trades[i] = pm.trades[i]
       /\ \A s \in DOMAIN pm'.active_trades :
              pm'.active_trades[s].pnl = None
       /\ \A i \in DOMAIN pm'.trades : pm'.trades[i].pnl # None]_vars

\* A symbol was closed, opened again and closed again at another price, and
\* an export has run after that.
C24_Witness ==
    /\ Len(pm.trades) = 2
    /\ pm.trades[1].symbol = pm.trades[2].symbol
    /\ pm.trades[1].exit_price # pm.trades[2].exit_price
    /\ pm.trades[1].pnl # pm.trades[2].pnl
    /\ IsCall(call, "save_metrics")


-----------------------------------------------------------------------------
(* Readers beside a closing trade.                                         *)

\* The trade that is open when the threads start is in the closed list of m.
StartTradeClosed(m) == \E k \in DOMAIN m.trades : m.trades[k].entry_time = 0

\* It is the active trade of its symbol in m.
StartTradeActive(m) ==
    \E s \in DOMAIN m.active_trades : m.active_trades[s].entry_time = 0

\* The close of that trade is whole in m: the record is in the closed list,
\* the capital has its pnl, the trade has left the active map.
CloseWhole(m) ==
    /\ StartTradeClosed(m)
    /\ ~StartTradeActive(m)
    /\ \E k \in DOMAIN m.trades :
           /\ m.trades[k].entry_time = 0
           /\ m.current_capital
                  = threads.start.current_capital + m.trades[k].pnl[1]

\* No part of it has happened in m.
CloseNotBegun(m) ==
    /\ ~StartTradeClosed(m)
    /\ m.current_capital = threads.start.current_capital

\* C25: what a recompute or an optimisation reads while a trade is being
\* closed is never torn: the close is whole in it (record in the closed
\* list, capital with its pnl, symbol out of the active map) or not begun.
C25_ReaderSeesNoTornLedger ==
    threads.reader.view # None
        => CloseWhole(threads.reader.view[1])
               \/ CloseNotBegun(threads.reader.view[1])


-----------------------------------------------------------------------------
(* Who writes what.                                                        *)

\* C26: a recompute and an optimisation leave the active map, the closed
\* list with every record in it and current_capital as they were; an entry
\* and an exit leave the parameters and their history as they were.
C26_OwnershipRespected ==
    [][/\ IsCall(call', "_update_performance_metrics")
              \/ IsCall(call', "optimize_parameters")
          => /\ pm'.active_trades = pm.active_trades
             /\ pm'.trades = pm.trades
             /\ pm'.current_capital = pm.current_capital
       /\ IsCall(call', "record_trade_entry")
              \/ IsCall(call', "record_trade_exit")
          => /\ pm'.optimal_params = pm.optimal_params
             /\ pm'.params_history = pm.params_history]_vars

\* An optimisation has changed the parameters on a ledger with closed
\* trades, and an entry has been recorded after it.
C26_Witness ==
    /\ IsCall(call, "record_trade_entry")
    /\ pm.params_history # <<>>
    /\ pm.optimal_params.signal_cooldown # Int2F(60)
    /\ pm.trades # <<>>
    /\ pm.active_trades # EmptyDict


-----------------------------------------------------------------------------
(* The size the algorithm trades with.                                     *)

\* C27: over any number of cycles of optimize_parameters followed by
\* _update_trading_parameters, base_position_size stays between 0.2 and 2.0
\* times its initial value.
C27_BaseSizeDriftBounded ==
    /\ ~FLt(algo.base_position_size, Frac(1, 5))
    /\ ~FLt(Int2F(2), algo.base_position_size)


\* C28: when close_position(symbol) returns for a symbol that had a
\* position, the monitor has no active trade of the symbol, the closed list
\* has one record more, and the position of the symbol is 0.
C28_ClosePositionCloses ==
    [][IsCall(call', "close_position") /\ call'.hit /\ call'.raised = "none"
          => /\ "AAPL" \notin DOMAIN pm'.active_trades
             /\ Len(pm'.trades) = Len(pm.trades) + 1
             /\ algo'.current_positions["AAPL"] = 0]_vars


-----------------------------------------------------------------------------
(* Stored metrics and the ledger.                                          *)

\* The stored win_rate and profit_factor are those of the trailing window.
RatesAgree ==
    LET w == Window(pm)
    IN  /\ pm.win_rate = Frac(Wins(w, DOMAIN w), Len(w))
        /\ pm.profit_factor = IF LossTotal(w) > 0
                              THEN Frac(ProfitTotal(w), LossTotal(w))
                              ELSE Inf

\* The stored max_drawdown is that of the trailing window.
DrawdownAgrees ==
    LET w == WithPnl(Window(pm))
        points == PointsOf(TradingDays(w), w, pm.initial_capital)
    IN  pm.max_drawdown = MaxDecline(points, 1, Int2F(1), Int2F(1), Int2F(0))

\* C29: between operations, once a trade is closed, the stored win_rate and
\* profit_factor are those of the last evaluation_window closed trades, and
\* so is the max_drawdown: what an optimisation reads and records in its
\* history is never stale.
C29_StoredMetricsAgreeWithLedger ==
    pm.trades # <<>> => RatesAgree /\ DrawdownAgrees


-----------------------------------------------------------------------------
(* The connection of the data feed.                                        *)

\* connect() has ended: it has returned or raised.
FeedEnded == algo.ibkr_feed.pc \in {"returned", "raised"}

\* What one step of connect() may do, from the feed f to the feed g.
ConnectStep(f, g) ==
    \* already connected: it returns without an attempt
    /\ f.pc = "check" /\ g.pc # "check" /\ f.client.socket
           => g.pc = "returned" /\ g.attempts = 0
    \* the flag is set after the wait: no further attempt
    /\ f.pc = "61" /\ g.pc # "61" /\ f.client.connected
           => g.pc = "final" /\ g.attempts = f.attempts
    /\ f.pc = "final" => g.pc \in {"final", "returned", "raised"}
                         /\ g.attempts = f.attempts
    \* a failed attempt is followed by another, unless it is the third
    /\ f.pc = "61" /\ g.pc # "61" /\ ~f.client.connected
           => IF f.attempts = 3
              THEN g.pc = "raised" /\ g.error = "ConnectionError: timeout"
              ELSE g.pc = "retry"
    /\ f.pc = "attempt" /\ g.pc \notin {"attempt", "wait"}
           => IF g.attempts = 3
              THEN g.pc = "raised" /\ g.error = "Exception: connect"
              ELSE g.pc = "retry"
    /\ f.pc = "retry" /\ g.pc # "retry" => g.pc = "attempt"
    \* it returns only from the connected branch or a final check that
    \* found the client connected
    /\ f.pc # "returned" /\ g.pc = "returned"
           => f.pc \in {"check", "final"} /\ f.client.socket

\* C30: connect() always ends.  Not connected, it makes at most 3 attempts,
\* none after the first whose connected flag is set when the wait is over,
\* raises the error of the third failed attempt again, and returns only if
\* the client is connected at the final check; already connected, it makes
\* no attempt.
C30_ConnectTerminates ==
    /\ (algo.ibkr_feed.pc = "check") ~> FeedEnded
    /\ [](algo.ibkr_feed.attempts <= 3)
    /\ [][ConnectStep(algo.ibkr_feed, algo'.ibkr_feed)]_vars

\* A second call of connect() has made three attempts, each with its own
\* API thread, and has raised the timeout of the third.
C30_Witness ==
    /\ algo.ibkr_feed.pc = "raised"
    /\ algo.ibkr_feed.calls = 2
    /\ algo.ibkr_feed.attempts = 3
    /\ algo.ibkr_feed.error = "ConnectionError: timeout"
    /\ threads.api >= 3

=============================================================================
